---------------------------- MODULE Spec2Model ----------------------------
(***************************************************************************)
(* PhantomDNS: the DNS query router (main.go), its configuration defaults  *)
(* (config.go) and the Blessnet session cache (blessnet.go).               *)
(*                                                                         *)
(* The specifications of the module:                                       *)
(*   Spec          one inbound DNS message handled by handleDNSRequest     *)
(*   FairSpec      Spec with weak fairness of the handler's steps          *)
(*   SpecClassify  isProxyDomain applied to bounded names / suffix lists   *)
(*   SpecAuth      concurrent Authenticate / RefreshAuth callers           *)
(*   SpecWorker    fetchFromWorker and the client methods that call it     *)
(*   SpecNodeAuth  BlessnetNodeAPI.Auth on the responses a server can send *)
(*   SpecStartup   main from LoadConfig to the running listener            *)
(*                                                                         *)
(* Strings whose bytes matter (domain names, suffixes) are sequences of    *)
(* one-character strings, so HasSuffix / TrimSuffix work on bytes as the   *)
(* Go functions do.                                                        *)
(***************************************************************************)
EXTENDS Integers, Sequences, FiniteSets, TLC

VARIABLES
    config,     \* the global *Config (main.go:20): ProxyDomains, Nameservers
    r,          \* the inbound *dns.Msg, or NoMsg before it arrives
    m,          \* the reply message built by handleDNSRequest
    hpc,        \* position of the handler
    qi,         \* index of the question being handled in m.Question
    ni,         \* index of the nameserver being tried by forwardToUpstream
    sent,       \* log of upstream exchanges (c.Exchange calls), in order
    proxied,    \* log of handleProxiedDomain invocations (question indexes)
    written,    \* messages written with w.WriteMsg
    clsName,    \* SpecClassify: the query name q.Name given to the classifier
    clsRoute,   \* SpecClassify: the route the code chose for clsName
    auth,       \* b.auth: Token and ExpiresAt, each tagged with the exchange
                \* that wrote it (TokenBy, ExpiresBy; 0 = none)
    mutex,      \* b.mutex: its holder, or Free
    now,        \* the wall clock read by time.Now(), in ticks
    pr,         \* per caller: position, operation and what the call has seen
    exchanges,  \* authentication exchanges (token issuances) executed so far
    ncalls,     \* calls of Authenticate / RefreshAuth started so far
    wk,         \* the fetchFromWorker call in progress, or the last one made
    requests,   \* HTTP requests handed to client.Do by fetchFromWorker since
                \* the client was constructed
    nfetch,     \* calls of fetchFromWorker started so far
    na,         \* the BlessnetNodeAPI.Auth call in progress, or the last one
    boot        \* main: its position, the configuration file it found, the
                \* client it built and the fatal error it exited with

dnsVars  == <<config, r, m, hpc, qi, ni, sent, proxied, written>>
clsVars  == <<clsName, clsRoute>>
authVars == <<auth, mutex, now, pr, exchanges, ncalls>>
wkVars   == <<wk, requests, nfetch>>
naVars   == <<na>>
bootVars == <<boot>>

-----------------------------------------------------------------------------
(* Bounds *)

MaxNameLen     == 4   \* SpecClassify: longest query name, in characters
MaxSuffixLen   == 2   \* SpecClassify: longest configured suffix
MaxSuffixes    == 2   \* SpecClassify: longest proxy-domain list
MaxNameservers == 3   \* longest configured nameserver list
MaxAnswers     == 1   \* most records in one upstream answer section
MaxCalls       == 3   \* SpecAuth: calls started in one behaviour
MaxTicks       == 1   \* SpecAuth: single clock ticks between two long waits
MaxJumps       == 1   \* SpecAuth: waits of a whole validity window
TicksPerSecond == 2   \* clock resolution: ticks in one second

-----------------------------------------------------------------------------
(* Strings *)

\* strings.HasSuffix
HasSuffix(s, suffix) ==
    /\ Len(s) >= Len(suffix)
    /\ SubSeq(s, Len(s) - Len(suffix) + 1, Len(s)) = suffix

\* strings.TrimSuffix
TrimSuffix(s, suffix) ==
    IF HasSuffix(s, suffix) THEN SubSeq(s, 1, Len(s) - Len(suffix)) ELSE s

UpperChars == <<"A","B","C","D","E","F","G","H","I","J","K","L","M",
                "N","O","P","Q","R","S","T","U","V","W","X","Y","Z">>
LowerChars == <<"a","b","c","d","e","f","g","h","i","j","k","l","m",
                "n","o","p","q","r","s","t","u","v","w","x","y","z">>

\* ASCII lower-casing of one character and of a string (the normalisation
\* the specification asks of the classifier; the code never calls it)
ToLowerChar(c) ==
    IF \E i \in 1..26 : UpperChars[i] = c
    THEN LowerChars[CHOOSE i \in 1..26 : UpperChars[i] = c]
    ELSE c

ToLower(s) == [i \in 1..Len(s) |-> ToLowerChar(s[i])]

\* all sequences over S of length lo..hi
SeqsOf(S, lo, hi) == UNION {[1..n -> S] : n \in lo..hi}

-----------------------------------------------------------------------------
(* DNS constants (github.com/miekg/dns) as used by main.go *)

OpcodeQuery  == "OpcodeQuery"
OpcodeNotify == "OpcodeNotify"
TypeA        == "A"
TypeAAAA     == "AAAA"
RcodeSuccess == "NOERROR"
RcodeServerFailure == "SERVFAIL"
NoMsg        == [none |-> TRUE]

\* the placeholder address of handleProxiedDomain
PlaceholderIP == "192.168.1.1"

\* the built-in nameserver pair
DefaultNameservers == <<"8.8.8.8", "1.1.1.1">>

-----------------------------------------------------------------------------
(* Configuration *)

\* a URL is <<scheme and host, path>>; NoURL is Go's empty string
NoURL == <<"", "">>
WorkerHost == "https://apricot-emu-jacklin-qikeha7m.bls.dev"

\* the built-in worker URL of config.go and NewBlessnetClient (no path)
DefaultWorkerURL == <<WorkerHost, "">>

\* defaults that leave an empty nameserver list empty
applyConfigDefaults_KeepEmpty(c) ==
    [c EXCEPT
        !.BlessnetWorkerURL =
            IF c.BlessnetWorkerURL = NoURL THEN DefaultWorkerURL
            ELSE c.BlessnetWorkerURL]

\* applyConfigDefaults, for the fields the router and the client read
applyConfigDefaults(c) ==
    [c EXCEPT
        !.Nameservers =
            IF Len(c.Nameservers) = 0 THEN DefaultNameservers
            ELSE c.Nameservers,
        !.BlessnetWorkerURL =
            IF c.BlessnetWorkerURL = NoURL THEN DefaultWorkerURL
            ELSE c.BlessnetWorkerURL]

\* createDefaultConfig: no proxy domains, the default nameserver pair, the
\* default worker URL and no API key or secret
createDefaultConfig ==
    [ProxyDomains      |-> <<>>,
     Nameservers       |-> DefaultNameservers,
     BlessnetWorkerURL |-> DefaultWorkerURL,
     BlessnetAPIKey    |-> "",
     BlessnetAPISecret |-> ""]

\* the API key and secret a configuration file can hold: both, or neither
KeyPairs == {<<"key", "secret">>, <<"", "">>}

\* LoadConfig on a readable file (a parsed record) or on a missing file
FileAbsent == [absent |-> TRUE]

\* a file that cannot be opened or read, and one that is no JSON document
FileUnreadable == [unreadable |-> TRUE]
FileCorrupt    == [corrupt |-> TRUE]

\* LoadConfig returns an error: the file cannot be opened (for another
\* reason than its absence) or read, it does not parse, or it is absent and
\* the default file cannot be written (createDefaultConfig)
LoadConfigFails(file, writable) ==
    \/ file \in {FileUnreadable, FileCorrupt}
    \/ file = FileAbsent /\ ~writable
LoadConfig(file) ==
    IF file = FileAbsent THEN createDefaultConfig ELSE applyConfigDefaults(file)

-----------------------------------------------------------------------------
(* Domain classifier *)

\* a classifier that matches whole names only
isProxyDomain_ExactOnly(domain) ==
    \E i \in 1..Len(config.ProxyDomains) : domain = config.ProxyDomains[i]

\* isProxyDomain: strings.HasSuffix against every configured suffix, in order
isProxyDomain(domain) ==
    \E i \in 1..Len(config.ProxyDomains) :
        HasSuffix(domain, config.ProxyDomains[i])

\* lines 38-45 of handleDNSRequest: strip one trailing dot, then classify
RouteOf(qname) ==
    IF isProxyDomain(TrimSuffix(qname, <<".">>)) THEN "Proxied" ELSE "Passthrough"

-----------------------------------------------------------------------------
(* Session cache: BlessnetClient.auth, Authenticate, RefreshAuth *)

\* two concurrent callers (goroutines handling queries)
Procs == {"g1", "g2"}
Free  == "free"

\* 24 * time.Hour, in ticks
ValidityHours == 24
Validity == ValidityHours * 3600 * TicksPerSecond

\* the zero time.Time of a fresh AuthConfig; the clock starts after it
ZeroTime == 0

EmptyToken == <<>>

\* "simulated_token_" + t.Format(time.RFC3339): RFC3339 keeps whole seconds
FormatToken(t) == <<"simulated_token_", t \div TicksPerSecond>>

\* a comparison that takes an expiry equal to the clock as still valid
After_OrEqual(t, u) == t >= u

\* time.Time.After: strictly later
After(t, u) == t > u

\* the condition of line 92 on the cache as it is at one instant
CachedValid == auth.Token # EmptyToken /\ After(auth.ExpiresAt, now)

\* prevTok / prevExp: the pair cached when the current RefreshAuth was called
IdleProc ==
    [pc |-> "idle", op |-> "none", tokBy |-> 0, torn |-> FALSE,
     startedInvalid |-> FALSE, exAtStart |-> 0, issued |-> 0,
     prevTok |-> EmptyToken, prevExp |-> ZeroTime]

\* NewBlessnetClient: auth is &AuthConfig{}, the mutex is unlocked
AuthInit ==
    /\ auth = [Token |-> EmptyToken, ExpiresAt |-> ZeroTime,
               TokenBy |-> 0, ExpiresBy |-> 0]
    /\ mutex = Free
    /\ now = 1
    /\ pr = [p \in Procs |-> IdleProc]
    /\ exchanges = 0
    /\ ncalls = 0

\* what a call records on entering Authenticate (line 90)
EnterAuthenticate(p, op) ==
    [pc |-> "a92", op |-> op, tokBy |-> 0, torn |-> FALSE,
     startedInvalid |-> ~CachedValid, exAtStart |-> exchanges, issued |-> 0,
     prevTok |-> IF op = "RefreshAuth" THEN pr[p].prevTok ELSE EmptyToken,
     prevExp |-> IF op = "RefreshAuth" THEN pr[p].prevExp ELSE ZeroTime]

\* a caller invokes b.Authenticate()
CallAuthenticate(p) ==
    /\ pr[p].pc = "idle"
    /\ ncalls < MaxCalls
    /\ ncalls' = ncalls + 1
    /\ pr' = [pr EXCEPT ![p] = EnterAuthenticate(p, "Authenticate")]
    /\ UNCHANGED <<auth, mutex, now, exchanges, dnsVars, clsVars, wkVars, naVars, bootVars>>

\* a caller invokes b.RefreshAuth()
CallRefreshAuth(p) ==
    /\ pr[p].pc = "idle"
    /\ ncalls < MaxCalls
    /\ ncalls' = ncalls + 1
    /\ pr' = [pr EXCEPT ![p] = [IdleProc EXCEPT !.pc = "r112",
                                                !.op = "RefreshAuth",
                                                !.prevTok = auth.Token,
                                                !.prevExp = auth.ExpiresAt]]
    /\ UNCHANGED <<auth, mutex, now, exchanges, dnsVars, clsVars, wkVars, naVars, bootVars>>

\* line 112: b.mutex.Lock()
RefreshLock(p) ==
    /\ pr[p].pc = "r112"
    /\ mutex = Free
    /\ mutex' = p
    /\ pr' = [pr EXCEPT ![p].pc = "r113"]
    /\ UNCHANGED <<auth, now, exchanges, ncalls, dnsVars, clsVars, wkVars, naVars, bootVars>>

\* line 113: b.auth.Token = ""
RefreshClear(p) ==
    /\ pr[p].pc = "r113"
    /\ auth' = [auth EXCEPT !.Token = EmptyToken, !.TokenBy = 0]
    /\ pr' = [pr EXCEPT ![p].pc = "r114"]
    /\ UNCHANGED <<mutex, now, exchanges, ncalls, dnsVars, clsVars, wkVars, naVars, bootVars>>

\* lines 114-115: b.mutex.Unlock(); return b.Authenticate()
RefreshUnlock(p) ==
    /\ pr[p].pc = "r114"
    /\ mutex' = Free
    /\ pr' = [pr EXCEPT ![p] = EnterAuthenticate(p, "RefreshAuth")]
    /\ UNCHANGED <<auth, now, exchanges, ncalls, dnsVars, clsVars, wkVars, naVars, bootVars>>

\* line 92, left operand: b.auth.Token is read without the mutex
AuthReadToken(p) ==
    /\ pr[p].pc = "a92"
    /\ pr' = [pr EXCEPT ![p].tokBy = auth.TokenBy,
                        ![p].pc = IF auth.Token # EmptyToken
                                  THEN "a92e" ELSE "a101"]
    /\ UNCHANGED <<auth, mutex, now, exchanges, ncalls, dnsVars, clsVars, wkVars, naVars, bootVars>>

\* line 92, right operand: b.auth.ExpiresAt.After(time.Now()), also unlocked
AuthCheckExpiry(p) ==
    /\ pr[p].pc = "a92e"
    /\ pr' = [pr EXCEPT ![p].torn = (pr[p].tokBy # auth.ExpiresBy),
                        ![p].pc = IF After(auth.ExpiresAt, now)
                                  THEN "a93" ELSE "a101"]
    /\ UNCHANGED <<auth, mutex, now, exchanges, ncalls, dnsVars, clsVars, wkVars, naVars, bootVars>>

\* lines 93-94: the cached token is used, no exchange
AuthReturnCached(p) ==
    /\ pr[p].pc = "a93"
    /\ pr' = [pr EXCEPT ![p].pc = "idle"]
    /\ UNCHANGED <<auth, mutex, now, exchanges, ncalls, dnsVars, clsVars, wkVars, naVars, bootVars>>

\* line 101: b.mutex.Lock()
AuthLock(p) ==
    /\ pr[p].pc = "a101"
    /\ mutex = Free
    /\ mutex' = p
    /\ pr' = [pr EXCEPT ![p].pc = "a102"]
    /\ UNCHANGED <<auth, now, exchanges, ncalls, dnsVars, clsVars, wkVars, naVars, bootVars>>

\* line 102: the token is issued and stored
AuthWriteToken(p) ==
    /\ pr[p].pc = "a102"
    /\ exchanges' = exchanges + 1
    /\ auth' = [auth EXCEPT !.Token = FormatToken(now),
                            !.TokenBy = exchanges + 1]
    /\ pr' = [pr EXCEPT ![p].pc = "a103", ![p].issued = exchanges + 1]
    /\ UNCHANGED <<mutex, now, ncalls, dnsVars, clsVars, wkVars, naVars, bootVars>>

\* line 103: the expiry is stored, from a second reading of the clock
AuthWriteExpiry(p) ==
    /\ pr[p].pc = "a103"
    /\ auth' = [auth EXCEPT !.ExpiresAt = now + Validity,
                            !.ExpiresBy = pr[p].issued]
    /\ pr' = [pr EXCEPT ![p].pc = "a104"]
    /\ UNCHANGED <<mutex, now, exchanges, ncalls, dnsVars, clsVars, wkVars, naVars, bootVars>>

\* line 104: b.mutex.Unlock()
AuthUnlock(p) ==
    /\ pr[p].pc = "a104"
    /\ mutex' = Free
    /\ pr' = [pr EXCEPT ![p].pc = "a106"]
    /\ UNCHANGED <<auth, now, exchanges, ncalls, dnsVars, clsVars, wkVars, naVars, bootVars>>

\* lines 106-107: the log line reads b.auth.ExpiresAt unlocked; return nil
AuthReturnIssued(p) ==
    /\ pr[p].pc = "a106"
    /\ pr' = [pr EXCEPT ![p].pc = "idle"]
    /\ UNCHANGED <<auth, mutex, now, exchanges, ncalls, dnsVars, clsVars, wkVars, naVars, bootVars>>

\* time passes: one tick at any moment, or a whole validity window between
\* calls
Tick ==
    /\ (now - 1) % Validity < MaxTicks
    /\ now' = now + 1
    /\ UNCHANGED <<auth, mutex, pr, exchanges, ncalls, dnsVars, clsVars, wkVars, naVars, bootVars>>

Wait ==
    /\ \A p \in Procs : pr[p].pc = "idle"
    /\ now \div Validity < MaxJumps
    /\ now' = now + Validity
    /\ UNCHANGED <<auth, mutex, pr, exchanges, ncalls, dnsVars, clsVars, wkVars, naVars, bootVars>>

AuthNext ==
    \/ \E p \in Procs : CallAuthenticate(p)
    \/ \E p \in Procs : CallRefreshAuth(p)
    \/ \E p \in Procs : RefreshLock(p)
    \/ \E p \in Procs : RefreshClear(p)
    \/ \E p \in Procs : RefreshUnlock(p)
    \/ \E p \in Procs : AuthReadToken(p)
    \/ \E p \in Procs : AuthCheckExpiry(p)
    \/ \E p \in Procs : AuthReturnCached(p)
    \/ \E p \in Procs : AuthLock(p)
    \/ \E p \in Procs : AuthWriteToken(p)
    \/ \E p \in Procs : AuthWriteExpiry(p)
    \/ \E p \in Procs : AuthUnlock(p)
    \/ \E p \in Procs : AuthReturnIssued(p)
    \/ Tick
    \/ Wait

-----------------------------------------------------------------------------
(* The worker client: NewBlessnetClient, fetchFromWorker and its callers *)

MaxFetches == 2   \* SpecWorker: calls of fetchFromWorker in one behaviour

StatusOK        == 200
StatusForbidden == 403

\* the response statuses a worker (or the CDN in front of it) answers with
Statuses == {StatusOK, 204, 302, StatusForbidden, 500}

\* response bodies: a page, and a challenge page that names Cloudflare
PageBody      == "<html>page</html>"
ChallengeBody == "<html>Attention Required! | Cloudflare</html>"
Bodies        == {PageBody, ChallengeBody}

\* strings.Contains(string(body), "Cloudflare")
ContainsCloudflare(body) == body = ChallengeBody

\* the target URLs handed to the client
TestTarget == "https://example.com"
Targets    == {"https://news.blocked.org", "https://blocked.org/a?b=c"}

\* the worker URLs a configuration file can hold
CustomWorkerURL == <<"https://worker.example", "">>
WorkerURLs      == {NoURL, DefaultWorkerURL, CustomWorkerURL}

\* NewBlessnetClient: the client's WorkerURL is the configured one, or the
\* built-in default when the configuration has none
NewBlessnetClient(c) ==
    [WorkerURL |-> IF c.BlessnetWorkerURL = NoURL THEN DefaultWorkerURL
                   ELSE c.BlessnetWorkerURL]

\* the regions of the client, in the order NewBlessnetClient lists them
Regions == <<"us-east", "eu-west", "ap-east">>

\* the URL fetchFromWorker sends every request to
workerURL == <<WorkerHost, "/">>

\* http.NewRequest("GET", workerURL, nil) with q.Add("TARGET", targetURL)
NewRequest(targetURL) ==
    [Method |-> "GET", URL |-> workerURL, Query |-> <<"TARGET", targetURL>>]

\* two URLs name the same endpoint: an empty path is the path "/"
RootPath(path) == IF path = "" THEN "/" ELSE path
SameEndpoint(u, v) == u[1] = v[1] /\ RootPath(u[2]) = RootPath(v[2])

\* what fetchFromWorker returns: (body, nil) or (nil, err)
NoResult      == [ok |-> FALSE, body |-> "", err |-> <<"none">>]
Success(body) == [ok |-> TRUE, body |-> body, err |-> <<>>]
Failure(err)  == [ok |-> FALSE, body |-> "", err |-> err]

ErrFetching      == <<"error fetching from worker">>
ErrReading       == <<"error reading worker response">>
ErrStatus(status) == <<"worker returned status", status>>

\* the tail of fetchFromWorker once the body is read: any status but 200 is
\* an error that carries the status only; the Cloudflare branch only logs
classify(status, body) ==
    IF status # StatusOK THEN Failure(ErrStatus(status)) ELSE Success(body)

\* a call of fetchFromWorker starts: the request is built
FetchStart(caller, targetURL) ==
    /\ wk.pc \in {"idle", "done"}
    /\ nfetch < MaxFetches
    /\ wk' = [pc |-> "do", caller |-> caller, target |-> targetURL,
              status |-> 0, body |-> "", result |-> NoResult]
    /\ nfetch' = nfetch + 1
    /\ UNCHANGED <<requests, dnsVars, clsVars, authVars, naVars, bootVars>>

\* the three client methods, each a plain call of fetchFromWorker
TestConnection            == FetchStart("TestConnection", TestTarget)
SendProxyRequest(targetURL) == FetchStart("SendProxyRequest", targetURL)
FetchPage(targetURL)      == FetchStart("FetchPage", targetURL)

\* client.Do fails: the request was sent (or attempted), an error comes back
FetchDoError ==
    /\ wk.pc = "do"
    /\ requests' = Append(requests, NewRequest(wk.target))
    /\ wk' = [wk EXCEPT !.pc = "done", !.result = Failure(ErrFetching)]
    /\ UNCHANGED <<nfetch, dnsVars, clsVars, authVars, naVars, bootVars>>

\* client.Do returns a response
FetchDoResponse(status, body) ==
    /\ wk.pc = "do"
    /\ requests' = Append(requests, NewRequest(wk.target))
    /\ wk' = [wk EXCEPT !.pc = "read", !.status = status, !.body = body]
    /\ UNCHANGED <<nfetch, dnsVars, clsVars, authVars, naVars, bootVars>>

\* ioutil.ReadAll fails
FetchReadError ==
    /\ wk.pc = "read"
    /\ wk' = [wk EXCEPT !.pc = "done", !.result = Failure(ErrReading)]
    /\ UNCHANGED <<requests, nfetch, dnsVars, clsVars, authVars, naVars, bootVars>>

\* a worker call that sends the request again after a non-200 response
FetchReturn_Retry ==
    /\ wk.pc = "read"
    /\ wk' = IF wk.status # StatusOK
             THEN [wk EXCEPT !.pc = "do", !.status = 0, !.body = ""]
             ELSE [wk EXCEPT !.pc = "done",
                             !.result = classify(wk.status, wk.body)]
    /\ UNCHANGED <<requests, nfetch, dnsVars, clsVars, authVars, naVars, bootVars>>

\* the body is read: the status decides what is returned
FetchReturn ==
    /\ wk.pc = "read"
    /\ wk' = [wk EXCEPT !.pc = "done",
                        !.result = classify(wk.status, wk.body)]
    /\ UNCHANGED <<requests, nfetch, dnsVars, clsVars, authVars, naVars, bootVars>>

WorkerNext ==
    \/ TestConnection
    \/ \E t \in Targets : SendProxyRequest(t)
    \/ \E t \in Targets : FetchPage(t)
    \/ FetchDoError
    \/ \E s \in Statuses, b \in Bodies : FetchDoResponse(s, b)
    \/ FetchReadError
    \/ FetchReturn

-----------------------------------------------------------------------------
(* BlessnetNodeAPI.Auth *)

MaxAuthCalls == 2    \* SpecNodeAuth: calls of Auth in one behaviour
DurationBits == 16   \* width of time.Duration (int64 in Go), in bits

\* time.Duration arithmetic wraps around like the signed integer it is
MaxDuration == 2 ^ (DurationBits - 1) - 1
WrapDuration(x) ==
    ((x + 2 ^ (DurationBits - 1)) % (2 ^ DurationBits)) - 2 ^ (DurationBits - 1)

\* time.Second, in clock ticks
Second == TicksPerSecond

\* time.Now().Add(time.Duration(expiresIn) * time.Second)
ExpiresAtOf(t, expiresIn) == t + WrapDuration(expiresIn * Second)

\* expires_in values a server can send: negative, zero, small, an hour, and
\* the smallest count of seconds whose product with time.Second overflows
LargeExpiresIn == MaxDuration \div Second + 1
ExpiresIns     == {-1, 0, 1, 3600, LargeExpiresIn}

\* response bodies: one that is no JSON document, and JSON documents with
\* an access_token and an expires_in that may be missing
NotJSON == [json |-> FALSE, access_token |-> "", has_expires_in |-> FALSE,
            expires_in |-> 0]
AuthBodies ==
    {NotJSON} \cup
    [json : {TRUE}, access_token : {"", "tok"}, has_expires_in : {TRUE},
     expires_in : ExpiresIns] \cup
    [json : {TRUE}, access_token : {"", "tok"}, has_expires_in : {FALSE},
     expires_in : {0}]

\* statuses of the authentication endpoint
AuthStatuses == {StatusOK, 201, 401, StatusForbidden, 500}

\* json.NewDecoder(resp.Body).Decode(&authResp): a missing field keeps the
\* zero value of the struct
Decode(body) ==
    [AccessToken |-> body.access_token,
     ExpiresIn   |-> IF body.has_expires_in THEN body.expires_in ELSE 0,
     ExpiresAt   |-> ZeroTime]

NoAuthResponse == [AccessToken |-> "", ExpiresIn |-> 0, ExpiresAt |-> ZeroTime]

ErrSending   == <<"error sending auth request">>
ErrParsing   == <<"error parsing auth response">>
ErrAuthFailed(status) == <<"auth request failed", status>>

\* fmt.Sprintf("%s/%s/auth", b.BaseURL, b.APIVersion)
BaseURL    == "https://api.blessnet.example"
APIVersion == "v1"
AuthURL    == <<BaseURL, APIVersion, "auth">>

IdleAuthCall ==
    [pc |-> "idle", apiKey |-> "", apiSecret |-> "", status |-> 0,
     body |-> NotJSON, resp |-> NoAuthResponse, isNil |-> TRUE,
     err |-> <<"none">>, posts |-> <<>>, calls |-> 0]

\* Auth(apiKey, apiSecret) is called: the request body is marshalled
AuthCall(apiKey, apiSecret) ==
    /\ na.pc \in {"idle", "done"}
    /\ na.calls < MaxAuthCalls
    /\ na' = [IdleAuthCall EXCEPT !.pc = "post", !.apiKey = apiKey,
                                  !.apiSecret = apiSecret,
                                  !.posts = na.posts,
                                  !.calls = na.calls + 1]
    /\ UNCHANGED <<dnsVars, clsVars, authVars, wkVars, bootVars>>

\* the POST request of the call in progress
AuthPost ==
    [Method |-> "POST", URL |-> AuthURL,
     Body |-> [api_key |-> na.apiKey, api_secret |-> na.apiSecret]]

\* b.client.Post fails in transport
AuthPostError ==
    /\ na.pc = "post"
    /\ na' = [na EXCEPT !.pc = "done", !.posts = Append(@, AuthPost),
                        !.err = ErrSending]
    /\ UNCHANGED <<dnsVars, clsVars, authVars, wkVars, bootVars>>

\* b.client.Post returns a response
AuthPostResponse(status, body) ==
    /\ na.pc = "post"
    /\ na' = [na EXCEPT !.pc = "resp", !.posts = Append(@, AuthPost),
                        !.status = status, !.body = body]
    /\ UNCHANGED <<dnsVars, clsVars, authVars, wkVars, bootVars>>

\* an Auth that posts again when the exchange is rejected
AuthRejected_Retry ==
    /\ na.pc = "resp"
    /\ na.status # StatusOK
    /\ na' = [na EXCEPT !.pc = "post", !.status = 0, !.body = NotJSON]
    /\ UNCHANGED <<dnsVars, clsVars, authVars, wkVars, bootVars>>

\* a status other than 200: an error and no response
AuthRejected ==
    /\ na.pc = "resp"
    /\ na.status # StatusOK
    /\ na' = [na EXCEPT !.pc = "done", !.err = ErrAuthFailed(na.status)]
    /\ UNCHANGED <<dnsVars, clsVars, authVars, wkVars, bootVars>>

\* status 200 with a body that does not decode
AuthParseError ==
    /\ na.pc = "resp"
    /\ na.status = StatusOK
    /\ ~na.body.json
    /\ na' = [na EXCEPT !.pc = "done", !.err = ErrParsing]
    /\ UNCHANGED <<dnsVars, clsVars, authVars, wkVars, bootVars>>

\* status 200 with a JSON body: ExpiresAt is computed and the response
\* returned with a nil error
AuthParsed ==
    /\ na.pc = "resp"
    /\ na.status = StatusOK
    /\ na.body.json
    /\ na' = [na EXCEPT
                 !.pc = "done",
                 !.resp = [Decode(na.body) EXCEPT
                              !.ExpiresAt =
                                  ExpiresAtOf(now, Decode(na.body).ExpiresIn)],
                 !.isNil = FALSE,
                 !.err = <<>>]
    /\ UNCHANGED <<dnsVars, clsVars, authVars, wkVars, bootVars>>

NodeAuthNext ==
    \/ \E k \in KeyPairs : AuthCall(k[1], k[2])
    \/ AuthPostError
    \/ \E s \in AuthStatuses, b \in AuthBodies : AuthPostResponse(s, b)
    \/ AuthRejected
    \/ AuthParseError
    \/ AuthParsed

-----------------------------------------------------------------------------
(* Inputs of the router *)

\* "news.blocked.org." and friends, in wire (dot-terminated) form
NewsBlockedOrg ==
    <<"n","e","w","s",".","b","l","o","c","k","e","d",".","o","r","g",".">>
NotBlockedOrg ==
    <<"n","o","t","b","l","o","c","k","e","d",".","o","r","g",".">>
ExampleCom ==
    <<"e","x","a","m","p","l","e",".","c","o","m",".">>
BlockedOrg    == <<"b","l","o","c","k","e","d",".","o","r","g">>
RestrictedOrg == <<"r","e","s","t","r","i","c","t","e","d",".","o","r","g">>

QNames == {NewsBlockedOrg, NotBlockedOrg, ExampleCom}

ProxyDomainLists == {<<>>, <<BlockedOrg>>, <<RestrictedOrg, BlockedOrg>>}

Addrs == {"8.8.8.8", "1.1.1.1"}

\* what a configuration file can hold for the fields the router reads
ConfigFiles ==
    {FileAbsent} \cup
    [ProxyDomains      : ProxyDomainLists,
     Nameservers       : SeqsOf(Addrs, 0, MaxNameservers),
     BlessnetWorkerURL : {NoURL},
     BlessnetAPIKey    : {""},
     BlessnetAPISecret : {""}]

Questions      == [Name : QNames, Qtype : {TypeA, TypeAAAA}]
ExtraQuestions == [Name : {ExampleCom}, Qtype : {TypeA}]
MsgIds         == {1, 2}

\* inbound messages: one question, or one question followed by another
InboundMsgs ==
    {[Id |-> id, Opcode |-> op, Question |-> <<q>> \o tl] :
        id \in MsgIds, op \in {OpcodeQuery, OpcodeNotify},
        q \in Questions, tl \in SeqsOf(ExtraQuestions, 0, 1)}

\* answer sections an upstream may return for a question: one or more records
RRData == {"93.184.216.34", "10.0.0.1"}
AnswersFor(q) ==
    {[i \in 1..Len(f) |-> [Name |-> q.Name, Rrtype |-> q.Qtype, Data |-> f[i]]] :
        f \in SeqsOf(RRData, 1, MaxAnswers)}

-----------------------------------------------------------------------------
(* handleDNSRequest and the functions it calls *)

\* m.SetReply(r) of the dns library: a response with r's id and opcode, a
\* success rcode, no answers, and r's FIRST question only
SetReply(req) ==
    [Id       |-> req.Id,
     Response |-> TRUE,
     Opcode   |-> req.Opcode,
     Rcode    |-> RcodeSuccess,
     Question |-> IF Len(req.Question) > 0 THEN <<req.Question[1]>> ELSE <<>>,
     Answer   |-> <<>>]

\* dns.NewRR(fmt.Sprintf("%s A 192.168.1.1", q.Name))
PlaceholderRR(q) == [Name |-> q.Name, Rrtype |-> TypeA, Data |-> PlaceholderIP]

\* upstreamMsg.SetQuestion(q.Name, q.Qtype) with RecursionDesired, sent to ns:53
UpstreamQuery(q, outcome, answer) ==
    [ns      |-> config.Nameservers[ni],
     idx     |-> ni,
     qi      |-> qi,
     Name    |-> q.Name,
     Qtype   |-> q.Qtype,
     outcome |-> outcome,
     Answer  |-> answer]

\* a handler that answers query messages only
Receive_DropNonQuery(msg) ==
    /\ hpc = "idle"
    /\ r' = msg
    /\ m' = SetReply(msg)
    /\ qi' = 1
    /\ hpc' = IF msg.Opcode = OpcodeQuery THEN "loop" ELSE "done"
    /\ UNCHANGED <<config, ni, sent, proxied, written, clsVars, authVars, wkVars, naVars, bootVars>>

\* a message arrives; lines 26-31: build the reply, switch on the opcode
Receive(msg) ==
    /\ hpc = "idle"
    /\ r' = msg
    /\ m' = SetReply(msg)
    /\ qi' = 1
    /\ hpc' = IF msg.Opcode = OpcodeQuery THEN "loop" ELSE "write"
    /\ UNCHANGED <<config, ni, sent, proxied, written, clsVars, authVars, wkVars, naVars, bootVars>>

\* line 33: a question whose type is not A is skipped
SkipQuestion ==
    /\ hpc = "loop"
    /\ qi <= Len(m.Question)
    /\ m.Question[qi].Qtype # TypeA
    /\ qi' = qi + 1
    /\ UNCHANGED <<config, r, m, hpc, ni, sent, proxied, written, clsVars, authVars, wkVars, naVars, bootVars>>

\* a placeholder that is only given out while a credential is cached
RouteProxied_NeedsToken ==
    /\ hpc = "loop"
    /\ qi <= Len(m.Question)
    /\ m.Question[qi].Qtype = TypeA
    /\ RouteOf(m.Question[qi].Name) = "Proxied"
    /\ proxied' = Append(proxied, qi)
    /\ m' = IF auth.Token = EmptyToken THEN m
            ELSE [m EXCEPT !.Answer = Append(@, PlaceholderRR(m.Question[qi]))]
    /\ qi' = qi + 1
    /\ UNCHANGED <<config, r, hpc, ni, sent, written, clsVars, authVars, wkVars, naVars, bootVars>>

\* lines 38-41 and handleProxiedDomain: the placeholder record is appended
RouteProxied ==
    /\ hpc = "loop"
    /\ qi <= Len(m.Question)
    /\ m.Question[qi].Qtype = TypeA
    /\ RouteOf(m.Question[qi].Name) = "Proxied"
    /\ proxied' = Append(proxied, qi)
    /\ m' = [m EXCEPT !.Answer = Append(@, PlaceholderRR(m.Question[qi]))]
    /\ qi' = qi + 1
    /\ UNCHANGED <<config, r, hpc, ni, sent, written, clsVars, authVars, wkVars, naVars, bootVars>>

\* lines 42-44: forwardToUpstream is entered
RouteUpstream ==
    /\ hpc = "loop"
    /\ qi <= Len(m.Question)
    /\ m.Question[qi].Qtype = TypeA
    /\ RouteOf(m.Question[qi].Name) = "Passthrough"
    /\ hpc' = "fwd"
    /\ ni' = 1
    /\ UNCHANGED <<config, r, m, qi, sent, proxied, written, clsVars, authVars, wkVars, naVars, bootVars>>

\* an exchange error that retries the same nameserver
ExchangeError_Retry ==
    /\ hpc = "fwd"
    /\ ni <= Len(config.Nameservers)
    /\ sent' = Append(sent, UpstreamQuery(m.Question[qi], "error", <<>>))
    /\ UNCHANGED <<config, r, m, hpc, qi, ni, proxied, written, clsVars, authVars, wkVars, naVars, bootVars>>

\* a failing nameserver that is dropped from the configured list
ExchangeError_Prune ==
    /\ hpc = "fwd"
    /\ ni <= Len(config.Nameservers)
    /\ sent' = Append(sent, UpstreamQuery(m.Question[qi], "error", <<>>))
    /\ config' = [config EXCEPT !.Nameservers =
                     SubSeq(@, 1, ni - 1) \o SubSeq(@, ni + 1, Len(@))]
    /\ UNCHANGED <<r, m, hpc, qi, ni, proxied, written, clsVars, authVars, wkVars, naVars, bootVars>>

\* lines 89-93: the exchange with nameserver ni fails (error or timeout)
ExchangeError ==
    /\ hpc = "fwd"
    /\ ni <= Len(config.Nameservers)
    /\ sent' = Append(sent, UpstreamQuery(m.Question[qi], "error", <<>>))
    /\ ni' = ni + 1
    /\ UNCHANGED <<config, r, m, hpc, qi, proxied, written, clsVars, authVars, wkVars, naVars, bootVars>>

\* an empty answer taken as final
ExchangeNoAnswer_Return ==
    /\ hpc = "fwd"
    /\ ni <= Len(config.Nameservers)
    /\ sent' = Append(sent, UpstreamQuery(m.Question[qi], "noanswer", <<>>))
    /\ hpc' = "loop"
    /\ qi' = qi + 1
    /\ UNCHANGED <<config, r, m, ni, proxied, written, clsVars, authVars, wkVars, naVars, bootVars>>

\* line 95 false: a nil response or an empty answer section (both are logged
\* as "noanswer")
ExchangeNoAnswer ==
    /\ hpc = "fwd"
    /\ ni <= Len(config.Nameservers)
    /\ sent' = Append(sent, UpstreamQuery(m.Question[qi], "noanswer", <<>>))
    /\ ni' = ni + 1
    /\ UNCHANGED <<config, r, m, hpc, qi, proxied, written, clsVars, authVars, wkVars, naVars, bootVars>>

\* answers appended without leaving the loop (merging across upstreams)
ExchangeAnswer_NoReturn ==
    /\ hpc = "fwd"
    /\ ni <= Len(config.Nameservers)
    /\ \E ans \in AnswersFor(m.Question[qi]) :
          /\ sent' = Append(sent, UpstreamQuery(m.Question[qi], "answer", ans))
          /\ m' = [m EXCEPT !.Answer = @ \o ans]
    /\ ni' = ni + 1
    /\ UNCHANGED <<config, r, hpc, qi, proxied, written, clsVars, authVars, wkVars, naVars, bootVars>>

\* lines 95-97: one or more answer records are appended and the loop is left
ExchangeAnswer ==
    /\ hpc = "fwd"
    /\ ni <= Len(config.Nameservers)
    /\ \E ans \in AnswersFor(m.Question[qi]) :
          /\ sent' = Append(sent, UpstreamQuery(m.Question[qi], "answer", ans))
          /\ m' = [m EXCEPT !.Answer = @ \o ans]
    /\ hpc' = "loop"
    /\ qi' = qi + 1
    /\ UNCHANGED <<config, r, ni, proxied, written, clsVars, authVars, wkVars, naVars, bootVars>>

\* exhaustion reported to the client as a server failure
ForwardExhausted_ServFail ==
    /\ hpc = "fwd"
    /\ ni > Len(config.Nameservers)
    /\ m' = [m EXCEPT !.Rcode = RcodeServerFailure]
    /\ hpc' = "loop"
    /\ qi' = qi + 1
    /\ UNCHANGED <<config, r, ni, sent, proxied, written, clsVars, authVars, wkVars, naVars, bootVars>>

\* line 83: the nameserver list is exhausted, forwardToUpstream returns
ForwardExhausted ==
    /\ hpc = "fwd"
    /\ ni > Len(config.Nameservers)
    /\ hpc' = "loop"
    /\ qi' = qi + 1
    /\ UNCHANGED <<config, r, m, ni, sent, proxied, written, clsVars, authVars, wkVars, naVars, bootVars>>

\* line 32: no question is left
LoopEnd ==
    /\ hpc = "loop"
    /\ qi > Len(m.Question)
    /\ hpc' = "write"
    /\ UNCHANGED <<config, r, m, qi, ni, sent, proxied, written, clsVars, authVars, wkVars, naVars, bootVars>>

\* line 50: w.WriteMsg(m)
WriteMsg ==
    /\ hpc = "write"
    /\ written' = Append(written, m)
    /\ hpc' = "done"
    /\ UNCHANGED <<config, r, m, qi, ni, sent, proxied, clsVars, authVars, wkVars, naVars, bootVars>>

ClsIdle == clsName = <<>> /\ clsRoute = "none"

\* no fetchFromWorker call made, no request sent
WkIdle ==
    /\ wk = [pc |-> "idle", caller |-> "none", target |-> "", status |-> 0,
             body |-> "", result |-> NoResult]
    /\ requests = <<>>
    /\ nfetch = 0

\* no BlessnetNodeAPI.Auth call made
NaIdle == na = IdleAuthCall

\* the configuration Go leaves in the global before LoadConfig returns
NoConfig == [none |-> TRUE]

\* the global blessnetClient before NewBlessnetClient returns
NoClient == [WorkerURL |-> NoURL]

\* main before its first statement, with the file it is going to find and
\* whether the working directory can be written
BootStart(file, writable) ==
    [pc |-> "load", file |-> file, writable |-> writable,
     client |-> NoClient, fatal |-> "none"]

\* main once the listener runs, for a file that spells out the loaded values
Started(c) ==
    [pc |-> "serving", file |-> c, writable |-> TRUE,
     client |-> NewBlessnetClient(c), fatal |-> "none"]

\* the router with no message received
DnsIdle ==
    /\ r = NoMsg /\ m = NoMsg /\ hpc = "idle" /\ qi = 0 /\ ni = 0
    /\ sent = <<>> /\ proxied = <<>> /\ written = <<>>

Init ==
    /\ config \in {LoadConfig(f) : f \in ConfigFiles}
    /\ r = NoMsg
    /\ m = NoMsg
    /\ hpc = "idle"
    /\ qi = 0
    /\ ni = 0
    /\ sent = <<>>
    /\ proxied = <<>>
    /\ written = <<>>
    /\ ClsIdle
    /\ AuthInit
    /\ WkIdle
    /\ NaIdle
    /\ boot = Started(config)

Next ==
    \/ \E msg \in InboundMsgs : Receive(msg)
    \/ SkipQuestion
    \/ RouteProxied
    \/ RouteUpstream
    \/ ExchangeError
    \/ ExchangeNoAnswer
    \/ ExchangeAnswer
    \/ ForwardExhausted
    \/ LoopEnd
    \/ WriteMsg

vars == <<dnsVars, clsVars, authVars, wkVars, naVars, bootVars>>

Spec == Init /\ [][Next]_vars

\* every enabled step of the handler is eventually taken: each exchange
\* returns or times out, and nothing else in the handler blocks
FairSpec == Spec /\ WF_vars(Next)

-----------------------------------------------------------------------------
(* The classifier on bounded inputs *)

ClsAlphabet == {"a", "A", "."}

\* dot-terminated names with non-empty labels (the root name is ".")
ClsNames ==
    {n \in SeqsOf(ClsAlphabet, 1, MaxNameLen) :
        /\ n[Len(n)] = "."
        /\ \A i \in 1..Len(n) - 1 : ~(n[i] = "." /\ n[i + 1] = ".")
        /\ (Len(n) > 1 => n[1] # ".")}

\* configured suffixes: domain-shaped strings
ClsSuffixes ==
    {x \in SeqsOf(ClsAlphabet, 1, MaxSuffixLen) :
        /\ x[1] # "." /\ x[Len(x)] # "."
        /\ \A i \in 1..Len(x) - 1 : ~(x[i] = "." /\ x[i + 1] = ".")}

ClsInit ==
    /\ config \in {[createDefaultConfig EXCEPT !.ProxyDomains = pd] :
                       pd \in SeqsOf(ClsSuffixes, 0, MaxSuffixes)}
    /\ clsName \in ClsNames
    /\ clsRoute = "none"
    /\ DnsIdle
    /\ AuthInit
    /\ WkIdle
    /\ NaIdle
    /\ boot = Started(config)

\* lines 38-39 applied to clsName
Classify ==
    /\ clsRoute = "none"
    /\ clsRoute' = RouteOf(clsName)
    /\ UNCHANGED <<dnsVars, clsName, authVars, wkVars, naVars, bootVars>>

ClsNext == Classify

SpecClassify == ClsInit /\ [][ClsNext]_vars

-----------------------------------------------------------------------------
(* The session cache under concurrent callers *)

AuthSpecInit ==
    /\ config \in {[createDefaultConfig EXCEPT !.BlessnetAPIKey = k[1],
                                               !.BlessnetAPISecret = k[2]] :
                       k \in KeyPairs}
    /\ DnsIdle
    /\ ClsIdle
    /\ AuthInit
    /\ WkIdle
    /\ NaIdle
    /\ boot = Started(config)

SpecAuth == AuthSpecInit /\ [][AuthNext]_vars

-----------------------------------------------------------------------------
(* The worker client on the configurations a file can hold *)

WorkerSpecInit ==
    /\ config \in {LoadConfig([ProxyDomains      |-> <<>>,
                               Nameservers       |-> <<>>,
                               BlessnetWorkerURL |-> u,
                               BlessnetAPIKey    |-> "",
                               BlessnetAPISecret |-> ""]) :
                       u \in WorkerURLs}
    /\ DnsIdle
    /\ ClsIdle
    /\ AuthInit
    /\ WkIdle
    /\ NaIdle
    /\ boot = Started(config)

SpecWorker == WorkerSpecInit /\ [][WorkerNext]_vars

-----------------------------------------------------------------------------
(* BlessnetNodeAPI.Auth on the responses a server can send *)

NodeAuthSpecInit ==
    /\ config = createDefaultConfig
    /\ DnsIdle
    /\ ClsIdle
    /\ AuthInit
    /\ WkIdle
    /\ NaIdle
    /\ boot = Started(config)

SpecNodeAuth == NodeAuthSpecInit /\ [][NodeAuthNext]_vars

-----------------------------------------------------------------------------
(* main: from LoadConfig to the running listener *)

\* what one call of fetchFromWorker can meet: client.Do fails, or it returns
\* a response whose body is read or fails to be read
FetchOutcomes ==
    {[doErr |-> TRUE, readErr |-> FALSE, status |-> 0, body |-> ""]} \cup
    [doErr : {FALSE}, readErr : BOOLEAN, status : Statuses, body : Bodies]

\* the value fetchFromWorker returns for an outcome
ResultOf(o) ==
    IF o.doErr THEN Failure(ErrFetching)
    ELSE IF o.readErr THEN Failure(ErrReading)
    ELSE classify(o.status, o.body)

\* the configuration files main can find
StartupFiles ==
    ConfigFiles \cup {FileUnreadable, FileCorrupt} \cup
    {[ProxyDomains |-> <<BlockedOrg>>, Nameservers |-> <<>>,
      BlessnetWorkerURL |-> CustomWorkerURL,
      BlessnetAPIKey |-> k[1], BlessnetAPISecret |-> k[2]] : k \in KeyPairs}

\* main.go:105-108: LoadConfig fails, log.Fatalf ends the process
BootLoadConfigFatal ==
    /\ boot.pc = "load"
    /\ LoadConfigFails(boot.file, boot.writable)
    /\ boot' = [boot EXCEPT !.pc = "exit", !.fatal = "config"]
    /\ UNCHANGED <<dnsVars, clsVars, authVars, wkVars, naVars>>

\* main.go:105: LoadConfig returns the configuration
BootLoadConfig ==
    /\ boot.pc = "load"
    /\ ~LoadConfigFails(boot.file, boot.writable)
    /\ config' = LoadConfig(boot.file)
    /\ boot' = [boot EXCEPT !.pc = "client"]
    /\ UNCHANGED <<r, m, hpc, qi, ni, sent, proxied, written,
                   clsVars, authVars, wkVars, naVars>>

\* main.go:111-114, NewBlessnetClient: the client is built, TestConnection
\* makes one fetchFromWorker call whose error is only logged, and the
\* client is returned with a nil error
BootNewBlessnetClient(o) ==
    /\ boot.pc = "client"
    /\ requests' = Append(requests, NewRequest(TestTarget))
    /\ nfetch' = nfetch + 1
    /\ wk' = [pc |-> "done", caller |-> "TestConnection",
              target |-> TestTarget, status |-> o.status, body |-> o.body,
              result |-> ResultOf(o)]
    /\ boot' = [boot EXCEPT !.pc = "listen",
                            !.client = NewBlessnetClient(config)]
    /\ UNCHANGED <<dnsVars, clsVars, authVars, naVars>>

\* main.go:132-136: ListenAndServe fails, log.Fatalf ends the process
BootListenFatal ==
    /\ boot.pc = "listen"
    /\ boot' = [boot EXCEPT !.pc = "exit", !.fatal = "listen"]
    /\ UNCHANGED <<dnsVars, clsVars, authVars, wkVars, naVars>>

\* main.go:132-133: the listener runs
BootListen ==
    /\ boot.pc = "listen"
    /\ boot' = [boot EXCEPT !.pc = "serving"]
    /\ UNCHANGED <<dnsVars, clsVars, authVars, wkVars, naVars>>

StartupInit ==
    /\ config = NoConfig
    /\ r = NoMsg /\ m = NoMsg /\ hpc = "idle" /\ qi = 0 /\ ni = 0
    /\ sent = <<>> /\ proxied = <<>> /\ written = <<>>
    /\ ClsIdle
    /\ AuthInit
    /\ WkIdle
    /\ NaIdle
    /\ boot \in {BootStart(f, w) : f \in StartupFiles, w \in BOOLEAN}

StartupNext ==
    \/ BootLoadConfigFatal
    \/ BootLoadConfig
    \/ \E o \in FetchOutcomes : BootNewBlessnetClient(o)
    \/ BootListenFatal
    \/ BootListen

SpecStartup == StartupInit /\ [][StartupNext]_vars

-----------------------------------------------------------------------------
(* The running server: one query handled while a caller uses the session *)
(* cache, after a startup whose connection test ended in any way          *)

\* the configuration file of the running server: "blocked.org" is proxied
ServeFiles ==
    {[ProxyDomains |-> <<BlockedOrg>>, Nameservers |-> <<>>,
      BlessnetWorkerURL |-> NoURL,
      BlessnetAPIKey |-> "", BlessnetAPISecret |-> ""]}

\* the messages it receives: a query with one question
ServeMsgs ==
    {[Id |-> 1, Opcode |-> OpcodeQuery, Question |-> <<q>>] : q \in Questions}

\* the caller that uses the session cache meanwhile
ServeCaller == "g1"

\* main has run: the configuration is loaded, NewBlessnetClient has made its
\* connection test with whatever outcome, the listener runs
ServeInit ==
    /\ config \in {LoadConfig(f) : f \in ServeFiles}
    /\ DnsIdle
    /\ ClsIdle
    /\ AuthInit
    /\ NaIdle
    /\ \E o \in FetchOutcomes :
          wk = [pc |-> "done", caller |-> "TestConnection",
                target |-> TestTarget, status |-> o.status, body |-> o.body,
                result |-> ResultOf(o)]
    /\ requests = <<NewRequest(TestTarget)>>
    /\ nfetch = 1
    /\ boot = Started(config)

ServeNext ==
    \/ \E msg \in ServeMsgs : Receive(msg)
    \/ SkipQuestion
    \/ RouteProxied
    \/ RouteUpstream
    \/ ExchangeError
    \/ ExchangeNoAnswer
    \/ ExchangeAnswer
    \/ ForwardExhausted
    \/ LoopEnd
    \/ WriteMsg
    \/ CallAuthenticate(ServeCaller)
    \/ CallRefreshAuth(ServeCaller)
    \/ RefreshLock(ServeCaller)
    \/ RefreshClear(ServeCaller)
    \/ RefreshUnlock(ServeCaller)
    \/ AuthReadToken(ServeCaller)
    \/ AuthCheckExpiry(ServeCaller)
    \/ AuthReturnCached(ServeCaller)
    \/ AuthLock(ServeCaller)
    \/ AuthWriteToken(ServeCaller)
    \/ AuthWriteExpiry(ServeCaller)
    \/ AuthUnlock(ServeCaller)
    \/ AuthReturnIssued(ServeCaller)

SpecServe == ServeInit /\ [][ServeNext]_vars

-----------------------------------------------------------------------------
(* Claims about the classifier (SpecClassify) *)

\* d equals s, or d ends with "." followed by s
LabelSuffixMatch(d, s) == d = s \/ HasSuffix(d, <<".">> \o s)

\* C1: the classifier answers Proxied exactly when the dot-stripped name
\* equals a configured suffix or ends with "." followed by it; a name that
\* ends with the suffix's characters without a label boundary is Passthrough.
C1_LabelBoundary ==
    clsRoute # "none" =>
        (clsRoute = "Proxied" <=>
            \E i \in 1..Len(config.ProxyDomains) :
                LabelSuffixMatch(TrimSuffix(clsName, <<".">>),
                                 config.ProxyDomains[i]))

\* C2: classification is case-insensitive: the route is the one suffix
\* matching gives on the lower-cased name and lower-cased suffixes.
C2_CaseInsensitive ==
    clsRoute # "none" =>
        (clsRoute = "Proxied" <=>
            \E i \in 1..Len(config.ProxyDomains) :
                HasSuffix(ToLower(TrimSuffix(clsName, <<".">>)),
                          ToLower(config.ProxyDomains[i])))

-----------------------------------------------------------------------------
(* Claims about the router and the upstream resolver (Spec, FairSpec) *)

Handled == hpc = "done"
FirstQ  == r.Question[1]

\* C3: with an empty proxy-domain list nothing is proxied and every upstream
\* query carries the inbound question's name and type (an A query is in fact
\* forwarded); with "blocked.org" configured "news.blocked.org" is Proxied.
C3_EmptyListPassthrough ==
    /\ config.ProxyDomains = <<>> =>
          /\ proxied = <<>>
          /\ \A k \in 1..Len(sent) :
                /\ sent[k].Name = r.Question[sent[k].qi].Name
                /\ sent[k].Qtype = r.Question[sent[k].qi].Qtype
          /\ (Handled /\ r.Opcode = OpcodeQuery /\ FirstQ.Qtype = TypeA)
                => Len(sent) >= 1
    /\ ( /\ Handled /\ r.Opcode = OpcodeQuery /\ FirstQ.Qtype = TypeA
         /\ FirstQ.Name = NewsBlockedOrg
         /\ \E i \in 1..Len(config.ProxyDomains) :
                config.ProxyDomains[i] = BlockedOrg )
       => (proxied = <<1>> /\ sent = <<>>)

C3_Witness ==
    /\ Handled /\ config.ProxyDomains = <<>>
    /\ FirstQ.Name = NewsBlockedOrg
    /\ Len(sent) >= 1 /\ sent[1].Name = NewsBlockedOrg

\* C4: upstreams are contacted in list order; the first one that returns
\* answer records ends the loop, the records appended for the question are
\* exactly its records, and no later upstream is contacted.
C4_FirstAnswerWins ==
    \A k \in 1..Len(sent) :
        /\ sent[k].idx = k
        /\ sent[k].ns = config.Nameservers[k]
        /\ sent[k].outcome = "answer" =>
              /\ k = Len(sent)
              /\ hpc # "fwd"
              /\ m.Answer = sent[k].Answer

C4_Witness ==
    /\ Handled /\ Len(config.Nameservers) = 3 /\ Len(sent) = 2
    /\ sent[1].outcome = "error" /\ sent[2].outcome = "answer"
    /\ Len(written) = 1 /\ written[1].Answer = sent[2].Answer

\* C5: an upstream that replies with no answer records (or a nil response)
\* adds nothing to the reply and the next upstream in the list is tried.
C5_EmptyAnswerContinues ==
    /\ (Len(sent) >= 1 /\ \A k \in 1..Len(sent) : sent[k].outcome # "answer")
          => m.Answer = <<>>
    /\ hpc = "fwd" => ni = Len(sent) + 1
    /\ \A k \in 1..Len(sent) :
          ( /\ sent[k].outcome = "noanswer"
            /\ k < Len(config.Nameservers)
            /\ hpc # "fwd" )
          => /\ Len(sent) >= k + 1
             /\ sent[k + 1].idx = k + 1

C5_Witness ==
    /\ Handled /\ Len(sent) = 2
    /\ sent[1].outcome = "noanswer" /\ sent[2].outcome = "answer"

\* C6: no nameserver list entry is exchanged with twice for one question, the
\* number of exchanges is at most the length of the list, and the resolution
\* loop, once entered, is always left.
C6_AtMostOncePerUpstream ==
    /\ [](/\ Len(sent) <= Len(config.Nameservers)
          /\ \A j, k \in 1..Len(sent) : j # k => sent[j].idx # sent[k].idx)
    /\ ((hpc = "fwd") ~> (hpc # "fwd"))

C6_Witness ==
    /\ Handled /\ Len(config.Nameservers) = 3 /\ Len(sent) = 3
    /\ \A k \in 1..3 : sent[k].outcome = "error"

\* C7: when every upstream fails or returns no answers the client still gets
\* one reply to its message: a response with a success rcode and no answers.
C7_EmptyValidReply ==
    ( /\ Handled
      /\ Len(sent) >= 1
      /\ \A k \in 1..Len(sent) : sent[k].outcome # "answer" )
    => /\ Len(written) = 1
       /\ written[1].Response
       /\ written[1].Id = r.Id
       /\ written[1].Answer = <<>>
       /\ written[1].Rcode = RcodeSuccess
       /\ written[1].Rcode # RcodeServerFailure

C7_Witness ==
    /\ Handled /\ Len(sent) = Len(config.Nameservers)
    /\ sent[1].outcome = "error" /\ sent[Len(sent)].outcome = "noanswer"
    /\ Len(written) = 1 /\ written[1].Answer = <<>>

\* C20: a proxied query contacts the ranked worker endpoints one after the
\* other, in rank order, until the first Success: once the query is handled
\* at least one and at most Len(Regions) worker requests have been made
C20_ProxiedContactsEndpoints ==
    (Handled /\ proxied # <<>>) => Len(requests) \in 1..Len(Regions)

-----------------------------------------------------------------------------
(* Claims about the session cache (SpecAuth) *)

\* positions at which the next step of a call reads or writes b.auth
ReadsAuth  == {"a92", "a92e", "a93", "a106"}
WritesAuth == {"r113", "a102", "a103"}

\* calls of p and q overlapped while no valid credential was cached: both
\* entered Authenticate with the cache invalid and no exchange ran between
\* the two entries
StartedTogetherInvalid(p, q) ==
    /\ p # q
    /\ pr[p].op = "Authenticate" /\ pr[q].op = "Authenticate"
    /\ pr[p].pc # "a92" /\ pr[q].pc # "a92"
    /\ pr[p].startedInvalid /\ pr[q].startedInvalid
    /\ pr[p].exAtStart = pr[q].exAtStart

\* C8: concurrent Authenticate calls that start while no valid credential is
\* cached execute exactly one exchange between them: two such calls never
\* both issue a token.
C8_SingleExchange ==
    \A p, q \in Procs :
        StartedTogetherInvalid(p, q) =>
            ~(pr[p].issued # 0 /\ pr[q].issued # 0)

\* C9: every read and write of {Token, ExpiresAt} in Authenticate and
\* RefreshAuth is made by the holder of the mutex, and no call sees a Token
\* of one exchange with the ExpiresAt of another.
C9_PairUnderMutex ==
    \A p \in Procs :
        /\ pr[p].pc \in (ReadsAuth \cup WritesAuth) => mutex = p
        /\ ~pr[p].torn

\* the second half of C9 alone: the torn read of the pair
C9_NoTornRead == \A p \in Procs : ~pr[p].torn

\* C10: Authenticate takes the cached path exactly when the Token it reads is
\* non-empty and ExpiresAt is strictly after the clock; on that path it runs
\* no exchange and leaves the pair unchanged; otherwise it runs one exchange
\* that stores a new Token and ExpiresAt = now + validity before it returns.
C10_ValidityDecides ==
    [][\A p \in Procs :
        /\ (pr[p].pc = "a92" /\ pr'[p].pc # "a92") =>
              /\ pr'[p].pc = IF auth.Token # EmptyToken THEN "a92e" ELSE "a101"
              /\ auth' = auth /\ exchanges' = exchanges
        /\ (pr[p].pc = "a92e" /\ pr'[p].pc # "a92e") =>
              /\ pr'[p].pc = IF auth.ExpiresAt > now THEN "a93" ELSE "a101"
              /\ auth' = auth /\ exchanges' = exchanges
        /\ (pr[p].pc = "a93" /\ pr'[p].pc # "a93") =>
              /\ pr'[p].pc = "idle" /\ pr[p].issued = 0
              /\ auth' = auth /\ exchanges' = exchanges
        /\ (pr[p].pc = "a101" /\ pr'[p].pc # "a101") => pr'[p].pc = "a102"
        /\ (pr[p].pc = "a102" /\ pr'[p].pc # "a102") =>
              /\ exchanges' = exchanges + 1
              /\ auth'.Token = FormatToken(now) /\ auth'.Token # EmptyToken
        /\ (pr[p].pc = "a103" /\ pr'[p].pc # "a103") =>
              /\ auth'.ExpiresAt = now + Validity
              /\ auth'.TokenBy = auth'.ExpiresBy
              /\ auth'.TokenBy = exchanges
        /\ (pr'[p].pc = "idle" /\ pr[p].pc # "idle") =>
              (pr[p].pc = "a93" \/ (pr[p].pc = "a106" /\ pr[p].issued # 0))
      ]_vars

\* one call has returned on the cached path and another after an exchange,
\* once the first credential had expired
C10_Witness ==
    \E p, q \in Procs :
        /\ pr[p].pc = "idle" /\ pr[p].op = "Authenticate" /\ pr[p].issued = 0
        /\ ~pr[p].startedInvalid
        /\ pr[q].pc = "idle" /\ pr[q].op = "Authenticate"
        /\ pr[q].issued = 2 /\ exchanges = 2
        /\ auth.TokenBy = 2 /\ auth.ExpiresBy = 2
        /\ now >= Validity

\* a call of p has returned (Authenticate and RefreshAuth only return nil)
Returned(p)  == pr[p].pc = "idle" /\ pr[p].op # "none"
Returning(p) == pr[p].pc \in {"a93", "a106"} /\ pr'[p].pc = "idle"

\* C11: every RefreshAuth call itself executes an authentication exchange
\* before it returns, whatever the other callers do.
C11_RefreshAlwaysExchanges ==
    \A p \in Procs :
        (Returned(p) /\ pr[p].op = "RefreshAuth") => pr[p].issued # 0

\* C12: a RefreshAuth made before the cached credential expires, with no
\* other caller about, leaves a Token different from the one cached before
\* the call and an ExpiresAt strictly later than the previous one.
C12_RefreshGivesNewCredential ==
    \A p \in Procs :
        ( /\ Returned(p) /\ pr[p].op = "RefreshAuth"
          /\ pr[p].prevTok # EmptyToken
          /\ \A q \in Procs \ {p} : pr[q].op = "none" )
        => /\ auth.Token # pr[p].prevTok
           /\ auth.ExpiresAt > pr[p].prevExp

\* C13: at the moment any Authenticate or RefreshAuth call returns, the
\* cached Token is non-empty and ExpiresAt is in the future.
C13_ReturnsValidCredential ==
    [][\A p \in Procs :
          Returning(p) => (auth.Token # EmptyToken /\ auth.ExpiresAt > now)
      ]_vars

\* the first half of C13 alone: no call returns while the Token is cleared
C13_ReturnsNonEmptyToken ==
    [][\A p \in Procs : Returning(p) => auth.Token # EmptyToken]_vars


\* C15: with the API key or the API secret absent from the configuration,
\* no credential is stored and no call of Authenticate returns success
\* (both returns of Authenticate, lines 93 and 107, return a nil error)
C15_FailsWithoutKeys ==
    (config.BlessnetAPIKey = "" \/ config.BlessnetAPISecret = "")
    => /\ auth.Token = EmptyToken
       /\ \A p \in Procs : ~Returned(p)

-----------------------------------------------------------------------------
(* Claims about the worker client (SpecWorker) *)

\* the call in progress returned from the status check of fetchFromWorker
Classified ==
    wk.pc = "done" /\ wk.result.err \notin {ErrFetching, ErrReading}

\* C16: a 403 response whose body carries the challenge marker gives a
\* returned outcome that differs from the outcome of every 403 response
\* without the marker, so the caller can tell Blocked from UpstreamError
C16_BlockedDistinct ==
    ( /\ Classified
      /\ wk.status = StatusForbidden
      /\ ContainsCloudflare(wk.body) )
    => \A b \in Bodies :
           ~ContainsCloudflare(b) => wk.result # classify(StatusForbidden, b)

\* C17: every status in 200..299 with a body that is no challenge page
\* returns (body, nil); every status outside 200..299 returns an error
C17_SuccessOn2xx ==
    Classified =>
        /\ (wk.status \in 200..299 /\ ~ContainsCloudflare(wk.body))
               => wk.result = Success(wk.body)
        /\ wk.status \notin 200..299 => ~wk.result.ok

\* C18: every request of the client is a GET to the client's WorkerURL
\* (config.BlessnetWorkerURL when set) with the target as parameter TARGET
C18_EndpointFromConfig ==
    /\ \A k \in 1..Len(requests) :
           /\ requests[k].Method = "GET"
           /\ requests[k].Query[1] = "TARGET"
           /\ SameEndpoint(requests[k].URL, NewBlessnetClient(config).WorkerURL)
    /\ wk.pc \in {"read", "done"}
           => requests[Len(requests)].Query = <<"TARGET", wk.target>>

\* C19: each call of fetchFromWorker sends exactly one request, whatever
\* the response status or error, and returns the outcome of that response
C19_OneRequestPerCall ==
    /\ Len(requests) = nfetch - (IF wk.pc = "do" THEN 1 ELSE 0)
    /\ wk.pc \in {"read", "done"}
           => requests[Len(requests)] = NewRequest(wk.target)
    /\ Classified => wk.result = classify(wk.status, wk.body)

\* two calls made, the second answered 403 with the challenge page
C19_Witness ==
    /\ wk.pc = "done"
    /\ wk.status = StatusForbidden
    /\ ContainsCloudflare(wk.body)
    /\ nfetch = MaxFetches
    /\ Len(requests) = MaxFetches

-----------------------------------------------------------------------------
(* Claims about the expiry of a credential (SpecNodeAuth, SpecAuth) *)

\* C14: an AuthResponse returned by Auth with a non-empty access token has
\* an ExpiresAt strictly after the time of the call, whatever expires_in
\* the server sent (zero, missing, negative, very large)
C14_FutureExpiry ==
    (na.pc = "done" /\ ~na.isNil /\ na.resp.AccessToken # "")
    => na.resp.ExpiresAt > now

\* the Authenticate half of C14: the expiry Authenticate stores is after
\* the time of the write
C14_AuthenticateFutureExpiry ==
    [][\A p \in Procs : AuthWriteExpiry(p) => auth'.ExpiresAt > now]_vars

-----------------------------------------------------------------------------
(* Claims about query handling as a whole (Spec, FairSpec) *)

\* question i of the inbound message went to handleProxiedDomain / to
\* forwardToUpstream
ToProxy(i)    == \E k \in 1..Len(proxied) : proxied[k] = i
ToUpstream(i) == \E k \in 1..Len(sent) : sent[k].qi = i

\* C21: a proxied query obtains a credential with Authenticate before any
\* worker endpoint is contacted: once a question went to the proxy path a
\* call of Authenticate has been made
C21_ProxiedAuthenticatesFirst ==
    proxied # <<>> =>
        /\ ncalls >= 1
        /\ \E p \in Procs : pr[p].op # "none"

\* C22: in a handled query message every question, of every record type,
\* went to exactly one of the upstream resolver and the proxy path, and a
\* question for a domain that is not proxied was forwarded upstream
C22_EveryQuestionDispatched ==
    (Handled /\ r.Opcode = OpcodeQuery) =>
        \A i \in 1..Len(r.Question) :
            /\ ToProxy(i) # ToUpstream(i)
            /\ RouteOf(r.Question[i].Name) = "Passthrough" => ToUpstream(i)

\* C23: every inbound message gets exactly one reply, keyed to it (same id,
\* response bit, opcode and question), whatever the opcode, the question
\* type, the route and the upstream failures; no message stays unanswered
C23_OneReplyWritten ==
    /\ Len(written) <= 1
    /\ Handled =>
          /\ Len(written) = 1
          /\ written[1].Id = r.Id
          /\ written[1].Response
          /\ written[1].Opcode = r.Opcode
          /\ written[1].Question = <<FirstQ>>
C23_ExactlyOneReply ==
    /\ []C23_OneReplyWritten
    /\ (hpc # "idle") ~> (Len(written) = 1)

\* every configured upstream failed, and the reply was written all the same
C23_Witness ==
    /\ Handled
    /\ Len(config.Nameservers) >= 2
    /\ Len(sent) = Len(config.Nameservers)
    /\ \A k \in 1..Len(sent) : sent[k].outcome = "error"
    /\ Len(written) = 1 /\ written[1].Id = r.Id

\* C25: no step of query handling changes the configuration
C25_ConfigReadOnly == [][config' = config]_vars

\* a query went through the classifier and the upstream loop, with a
\* failing upstream, under a configuration that lists proxy domains
C25_Witness ==
    /\ Handled
    /\ config.ProxyDomains # <<>>
    /\ Len(sent) >= 2
    /\ sent[1].outcome = "error"

\* C26: the handler has a deadline shorter than the time one unanswered
\* upstream exchange takes: after an exchange that ended in an error (a
\* timeout is one) no further upstream is contacted for the question, and
\* the reply is a failure answer
C26_DeadlineStopsFallback ==
    /\ \A k \in 2..Len(sent) :
          ~(sent[k].qi = sent[k-1].qi /\ sent[k-1].outcome = "error")
    /\ (Handled /\ \E k \in 1..Len(sent) : sent[k].outcome = "error")
          => written[1].Rcode = RcodeServerFailure

\* the first half of C30: a message that is no query, and a question that
\* is no A question, contact no upstream and no worker and add no answer
C30_NoContactForOthers ==
    /\ (r # NoMsg /\ r.Opcode # OpcodeQuery) =>
          /\ sent = <<>> /\ proxied = <<>> /\ requests = <<>>
          /\ m.Answer = <<>>
    /\ r # NoMsg =>
          \A i \in 1..Len(r.Question) :
              r.Question[i].Qtype # TypeA =>
                  /\ ~ToProxy(i) /\ ~ToUpstream(i)
                  /\ requests = <<>>
                  /\ \A k \in 1..Len(m.Answer) :
                         m.Answer[k].Name # r.Question[i].Name
                         \/ \E j \in 1..Len(r.Question) :
                                /\ j # i
                                /\ r.Question[j].Name = r.Question[i].Name
                                /\ r.Question[j].Qtype = TypeA

\* C30: as above, and in a handled query message with several questions
\* every A question was routed (to the proxy path or upstream) and the
\* answers stand in the reply in question order
C30_EachAQuestionRouted ==
    /\ C30_NoContactForOthers
    /\ (Handled /\ r.Opcode = OpcodeQuery) =>
          /\ \A i \in 1..Len(r.Question) :
                r.Question[i].Qtype = TypeA => (ToProxy(i) \/ ToUpstream(i))
          /\ \A k \in 1..Len(sent), l \in 1..Len(sent) :
                k <= l => sent[k].qi <= sent[l].qi

-----------------------------------------------------------------------------
(* Claims about BlessnetNodeAPI.Auth (SpecNodeAuth) *)

\* the parts of C28 about the request and the failures: one POST to the
\* auth URL for each call, and an error with no response whenever the
\* status is not 200, the transport failed or the body does not parse
C28_OnePostNoRetry ==
    /\ Len(na.posts) = na.calls - (IF na.pc = "post" THEN 1 ELSE 0)
    /\ \A k \in 1..Len(na.posts) :
          na.posts[k].Method = "POST" /\ na.posts[k].URL = AuthURL
    /\ (na.pc = "done" /\ (na.status # StatusOK \/ ~na.body.json))
          => (na.isNil /\ na.err # <<>>)

\* C28: as above, and on status 200 with a parsable body the response is
\* returned with ExpiresAt equal to the current time plus expires_in seconds
C28_AuthExchange ==
    /\ C28_OnePostNoRetry
    /\ (na.pc = "done" /\ na.status = StatusOK /\ na.body.json)
          => /\ ~na.isNil /\ na.err = <<>>
             /\ na.resp.AccessToken = na.body.access_token
             /\ na.resp.ExpiresAt = now + na.resp.ExpiresIn * Second

-----------------------------------------------------------------------------
(* Claims about startup and the configuration (SpecStartup) *)

\* LoadConfig has returned a configuration
Loaded == boot.pc \in {"client", "listen", "serving"} \/ boot.fatal = "listen"

\* the configuration file exists and parses
Parsed(file) == file \notin {FileAbsent, FileUnreadable, FileCorrupt}

\* C24: once LoadConfig succeeded the nameserver list is not empty: it is
\* the default pair when the file is absent or gives no nameservers, and
\* the configured list, unchanged, when the file gives one
C24_NameserversNeverEmpty ==
    Loaded =>
        /\ Len(config.Nameservers) >= 1
        /\ (boot.file = FileAbsent \/ boot.file.Nameservers = <<>>)
              => config.Nameservers = DefaultNameservers
        /\ (Parsed(boot.file) /\ boot.file.Nameservers # <<>>)
              => config.Nameservers = boot.file.Nameservers

\* the server runs on a file that exists and lists no nameservers
C24_Witness ==
    /\ boot.pc = "serving"
    /\ Parsed(boot.file)
    /\ boot.file.Nameservers = <<>>
    /\ config.Nameservers = <<"8.8.8.8", "1.1.1.1">>

\* the parts of C27 about the fatal errors and the client: the process
\* exits only on a LoadConfig or listener failure, and past
\* NewBlessnetClient there is a client, also when the connection test failed
C27_FatalOnlyLoadOrListen ==
    /\ boot.pc = "exit" <=> boot.fatal \in {"config", "listen"}
    /\ boot.fatal \in {"none", "config", "listen"}
    /\ boot.fatal = "config" => LoadConfigFails(boot.file, boot.writable)
    /\ (boot.pc \in {"listen", "serving"} \/ boot.fatal = "listen")
          => /\ boot.client # NoClient
             /\ boot.client = NewBlessnetClient(config)
             /\ Len(requests) = 1

\* C27: as above, and a missing configuration file is replaced by the
\* defaults and is never fatal
C27_StartupFatalConditions ==
    /\ C27_FatalOnlyLoadOrListen
    /\ boot.file = FileAbsent => boot.fatal # "config"

-----------------------------------------------------------------------------
(* Claims about the proxy path of the running server (SpecServe) *)

\* C29: a question that goes down the proxy path is never sent upstream;
\* the step that handles it contacts no upstream and no worker, leaves the
\* session state as it is, and appends exactly one A record, owned by the
\* queried name and carrying the same address whatever the session and the
\* worker state are
C29_ProxiedStep ==
    proxied' # proxied =>
        /\ sent' = sent
        /\ UNCHANGED <<authVars, wkVars>>
        /\ m'.Answer = Append(m.Answer,
                              [Name   |-> m.Question[qi].Name,
                               Rrtype |-> TypeA,
                               Data   |-> "192.168.1.1"])
C29_WitnessNoSession ==
    /\ Handled
    /\ proxied = <<1>>
    /\ auth.Token = EmptyToken
    /\ wk.result.ok
    /\ Len(written[1].Answer) = 1

====
